---- MODULE Spec2Model ----
(***************************************************************************)
(* Calendly -> TeleForce webhook adapter.                                  *)
(*                                                                         *)
(* The repository holds three variants of the same POST /api/webhook       *)
(* handler:                                                                *)
(*   "basic"     src/index.js                (exact-name segment table)    *)
(*   "signature" src/unnamed/part_000:1-367  (raw body, optional HMAC)     *)
(*   "lookup"    src/unnamed/part_000:369-634 (event-type fetch, keyword   *)
(*                                            segment resolution)          *)
(* A request is a process: it runs synchronously from its arrival to the   *)
(* first await, and each network completion resumes it.                    *)
(*                                                                         *)
(* Text the code computes on (event names, question texts, answers) is a   *)
(* sequence of one-character strings; JSON values are tagged records.      *)
(***************************************************************************)
EXTENDS Integers, Sequences, FiniteSets, TLC

VARIABLES
    variant,        \* which handler file is deployed
    verifyEnabled,  \* ENABLE_SIGNATURE_VERIFY
    body,           \* [request -> parsed request body]
    sigOk,          \* [request -> what verifyCalendlySignature returns for it]
    pc,             \* [request -> "received" | "awaitEventType" | "awaitForward" | "done"]
    eventTypeName,  \* [request -> value returned by getEventTypeName]
    lead,           \* [request -> teleforcePayload handed to axios.post]
    calls,          \* [request -> sequence of outbound calls issued, "GET" / "POST"]
    netResult,      \* [request -> outcomes of the outbound calls]
    responses,      \* [request -> sequence of HTTP responses sent]
    fnName,         \* argument of the pure function under check
    fnResult,       \* its result
    tables          \* SEGMENT_MAPPING and FORM_MAPPINGS as the process holds them

vars == <<variant, verifyEnabled, body, sigOk, pc, eventTypeName, lead, calls,
          netResult, responses, fnName, fnResult, tables>>

-----------------------------------------------------------------------------
(* Bounds *)

\* longest questions_and_answers list enumerated
MaxQA == 2

\* event-type names are concatenations of at most MaxWords words
MaxWords == 3

-----------------------------------------------------------------------------
(* Text *)

K_CRO == <<"C", "R", "O">>
K_Performance == <<"P", "e", "r", "f", "o", "r", "m", "a", "n", "c", "e">>
K_default_segment == <<"d", "e", "f", "a", "u", "l", "t", "_", "s", "e", "g", "m", "e", "n", "t">>
kw_cro == <<"c", "r", "o">>
kw_performance == <<"p", "e", "r", "f", "o", "r", "m", "a", "n", "c", "e">>
kw_mobile == <<"m", "o", "b", "i", "l", "e">>
q_City == <<"C", "i", "t", "y">>
q_city == <<"c", "i", "t", "y">>
q_Address == <<"A", "d", "d", "r", "e", "s", "s">>
q_address == <<"a", "d", "d", "r", "e", "s", "s">>
q_MobileNo == <<"M", "o", "b", "i", "l", "e", " ", "N", "o">>
q_YourBudget == <<"Y", "o", "u", "r", " ", " ", "B", "u", "d", "g", "e", "t">>
a_Austin == <<"A", "u", "s", "t", "i", "n">>
a_Dallas == <<"D", "a", "l", "l", "a", "s">>
a_blank == <<" ", " ">>
a_phone == <<" ", "9", "8", " ", " ", "7", "6", " ">>
a_10k == <<"1", "0", "k">>
a_MainSt == <<"1", " ", "M", "a", "i", "n", " ", "S", "t">>
n_WebsiteCROMeet == <<"W", "e", "b", "s", "i", "t", "e", " ", "C", "R", "O", " ", "M", "e", "e", "t">>
n_croperformance == <<"c", "r", "o", " ", "p", "e", "r", "f", "o", "r", "m", "a", "n", "c", "e">>
n_Other == <<"O", "t", "h", "e", "r">>
n_constructor == <<"c", "o", "n", "s", "t", "r", "u", "c", "t", "o", "r">>
t_JaneDoe == <<"J", "a", "n", "e", " ", "D", "o", "e">>
t_janeEmail == <<"j", "a", "n", "e", "@", "x", ".", "c", "o", "m">>
t_Unknown == <<"U", "n", "k", "n", "o", "w", "n">>
t_start == <<"2", "0", "2", "4", "-", "0", "1", "-", "0", "1", "T", "1", "0", ":", "0", "0", ":", "0", "0", "Z">>
t_url == <<"h", "t", "t", "p", "s", ":", "/", "/", "a", "p", "i", ".", "c", "a", "l", "e", "n", "d", "l", "y", ".", "c", "o", "m", "/", "e", "v", "e", "n", "t", "_", "t", "y", "p", "e", "s", "/", "X">>
t_undefined == <<"u", "n", "d", "e", "f", "i", "n", "e", "d">>
t_null == <<"n", "u", "l", "l">>
t_5 == <<"5">>

LowerOf ==
    ("A" :> "a") @@ ("B" :> "b") @@ ("C" :> "c") @@ ("D" :> "d") @@ ("E" :> "e") @@
    ("F" :> "f") @@ ("G" :> "g") @@ ("H" :> "h") @@ ("I" :> "i") @@ ("J" :> "j") @@
    ("K" :> "k") @@ ("L" :> "l") @@ ("M" :> "m") @@ ("N" :> "n") @@ ("O" :> "o") @@
    ("P" :> "p") @@ ("Q" :> "q") @@ ("R" :> "r") @@ ("S" :> "s") @@ ("T" :> "t") @@
    ("U" :> "u") @@ ("V" :> "v") @@ ("W" :> "w") @@ ("X" :> "x") @@ ("Y" :> "y") @@
    ("Z" :> "z")

\* one character of String.prototype.toLowerCase
LowerCh(c) == IF c \in DOMAIN LowerOf THEN LowerOf[c] ELSE c

\* String.prototype.toLowerCase
toLowerCase(s) == [i \in 1..Len(s) |-> LowerCh(s[i])]

\* String.prototype.includes
includes(s, sub) ==
    \E i \in 1..(Len(s) - Len(sub) + 1) : SubSeq(s, i, i + Len(sub) - 1) = sub

\* the characters the regular expression \s matches, of those enumerated
IsSpace(c) == c \in {" ", "\t", "\n"}

\* String.prototype.trim
RECURSIVE trim(_)
trim(s) ==
    IF s = <<>> THEN <<>>
    ELSE IF IsSpace(Head(s)) THEN trim(Tail(s))
    ELSE IF IsSpace(s[Len(s)]) THEN trim(SubSeq(s, 1, Len(s) - 1))
    ELSE s

\* s.replace(/\s/g, rep): every whitespace character becomes rep
RECURSIVE replaceEachSpace(_, _)
replaceEachSpace(s, rep) ==
    IF s = <<>> THEN <<>>
    ELSE IF IsSpace(Head(s)) THEN rep \o replaceEachSpace(Tail(s), rep)
    ELSE <<Head(s)>> \o replaceEachSpace(Tail(s), rep)

\* s.replace(/\s+/g, rep): every maximal run of whitespace becomes rep
RECURSIVE replaceSpaces(_, _)
replaceSpaces(s, rep) ==
    IF s = <<>> THEN <<>>
    ELSE IF IsSpace(Head(s))
         THEN IF Len(s) > 1 /\ IsSpace(s[2])
              THEN replaceSpaces(Tail(s), rep)
              ELSE rep \o replaceSpaces(Tail(s), rep)
         ELSE <<Head(s)>> \o replaceSpaces(Tail(s), rep)

-----------------------------------------------------------------------------
(* JSON values *)

Undefined == [t |-> "undefined", s |-> <<>>]
Null == [t |-> "null", s |-> <<>>]
Str(s) == [t |-> "string", s |-> s]
\* a JSON number, s its decimal text
Num(s) == [t |-> "number", s |-> s]
\* a function value inherited from Object.prototype
Inherited == [t |-> "function", s |-> <<>>]

\* JavaScript truthiness of a value
Truthy(v) ==
    CASE v.t = "string" -> v.s # <<>>
      [] v.t = "number" -> v.s # <<"0">>
      [] v.t = "function" -> TRUE
      [] v.t = "object" -> TRUE
      [] v.t = "array" -> TRUE
      [] OTHER -> FALSE

\* a || b
Or(a, b) == IF Truthy(a) THEN a ELSE b

\* a ?? b
Nullish(a, b) == IF a.t \in {"undefined", "null"} THEN b ELSE a

\* String(v), and the property key a value is coerced to
String(v) ==
    CASE v.t = "undefined" -> t_undefined
      [] v.t = "null" -> t_null
      [] OTHER -> v.s

-----------------------------------------------------------------------------
(* Configuration tables *)

ID_CRO == "SEG07ootjebf6hm231767941287541"
ID_Performance == "SEGtgewk86jmjb31767941272012"
ID_default == "SEGplj45zsru74b1767770566946"

SEGMENT_MAPPING ==
    (K_CRO :> Str(<<ID_CRO>>)) @@
    (K_Performance :> Str(<<ID_Performance>>)) @@
    (K_default_segment :> Str(<<ID_default>>))

FORM_MAPPINGS ==
    (K_CRO :> [t |-> "object", city |-> <<q_City, q_city>>, address |-> <<q_Address, q_address>>]) @@
    (K_Performance :> [t |-> "object", city |-> <<q_City, q_city>>, address |-> <<q_Address, q_address>>])

\* the two tables as the module's top level creates them
ConfigTables == [SEGMENT_MAPPING |-> SEGMENT_MAPPING, FORM_MAPPINGS |-> FORM_MAPPINGS]

\* property names every object literal inherits from Object.prototype
ObjectPrototypeKeys == {n_constructor}

\* SEGMENT_MAPPING[key]: own entry, inherited member, or undefined
SegmentEntry(key) ==
    IF String(key) \in DOMAIN tables.SEGMENT_MAPPING THEN tables.SEGMENT_MAPPING[String(key)]
    ELSE IF String(key) \in ObjectPrototypeKeys THEN Inherited
    ELSE Undefined

\* FORM_MAPPINGS[key]: own entry, inherited member, or undefined
FormEntry(key) ==
    IF String(key) \in DOMAIN tables.FORM_MAPPINGS THEN tables.FORM_MAPPINGS[String(key)]
    ELSE IF String(key) \in ObjectPrototypeKeys THEN [t |-> "function"]
    ELSE [t |-> "undefined"]

-----------------------------------------------------------------------------
(* resolveSegment *)

\* the segment key with the keyword tests in the opposite order
SegmentKeyPerformanceFirst(name) ==
    IF includes(name, kw_performance) THEN Str(K_Performance)
    ELSE IF includes(name, kw_cro) THEN Str(K_CRO)
    ELSE Null

\* lines 478-480: the key chosen from the lower-cased name
SegmentKeyOf(name) ==
    IF includes(name, kw_cro) THEN Str(K_CRO)
    ELSE IF includes(name, kw_performance) THEN Str(K_Performance)
    ELSE Null

resolveSegment(etn) ==
    LET name == toLowerCase(Or(etn, Str(<<>>)).s)
        segmentKey == SegmentKeyOf(name)
        segmentId == Or(SegmentEntry(segmentKey), tables.SEGMENT_MAPPING[K_default_segment])
    IN  [segmentKey |-> Or(segmentKey, Str(K_default_segment)), segmentId |-> segmentId]

-----------------------------------------------------------------------------
(* Objects of the request body *)

NoObject == [t |-> "undefined"]
EmptyArray == [t |-> "array", items |-> <<>>]

\* obj?.field
Opt(obj, field) == IF obj.t = "object" THEN obj[field] ELSE NoObject

\* [first_name, last_name].filter(Boolean).join(' ')
JoinNames(first, last) ==
    IF Truthy(first) /\ Truthy(last) THEN Str(String(first) \o <<" ">> \o String(last))
    ELSE IF Truthy(first) THEN Str(String(first))
    ELSE IF Truthy(last) THEN Str(String(last))
    ELSE Str(<<>>)

\* process.env.TELEFORCE_ACCOUNT_ID
ACCOUNT_ID == Str(<<"TELEFORCE_ACCOUNT_ID">>)

-----------------------------------------------------------------------------
(* Normalizers: [event, invitee, eventData, questionsAnswers] *)

\* signature variant
normalizeSignature(b) ==
    LET payload == b.payload
        data == b.data
        qaPayload == Opt(payload, "questions_and_answers")
        \* payload?.questions_and_answers?.collection is reached only when
        \* payload?.questions_and_answers is falsy, and is then undefined
        qaCollection == NoObject
        qaData == Opt(Opt(data, "payload"), "questions_and_answers")
    IN  [event |-> b.event,
         invitee |-> Or(Opt(payload, "invitee"), Opt(data, "invitee")),
         eventData |-> Or(Opt(payload, "event"), Opt(data, "event")),
         questionsAnswers |-> Or(Or(Or(qaPayload, qaCollection), qaData), EmptyArray)]

\* event-type lookup variant: the payload itself is the invitee
normalizeLookup(b) ==
    LET payload == b.payload
    IN  [event |-> b.event,
         invitee |-> Or(payload, [t |-> "null"]),
         eventData |-> Or(Opt(payload, "scheduled_event"), [t |-> "null"]),
         questionsAnswers |-> Or(Opt(payload, "questions_and_answers"), EmptyArray)]

-----------------------------------------------------------------------------
(* Form answers *)

Max(S) == CHOOSE x \in S : \A y \in S : y <= x

\* formAnswers[key] after the forEach that fills it; a later entry with the
\* same question overwrites an earlier one.  guarded: `if (qa?.question)`.
FormAnswer(items, key, guarded) ==
    LET hits == {i \in 1..Len(items) :
                    /\ items[i].t = "object"
                    /\ guarded => Truthy(items[i].question)
                    /\ String(items[i].question) = key}
    IN  IF hits = {} THEN Undefined ELSE items[Max(hits)].answer

\* formAnswers[keys[0]] || formAnswers[keys[1]] || '' of the basic variant
firstTruthy(items, keys) ==
    Or(Or(FormAnswer(items, keys[1], FALSE), FormAnswer(items, keys[2], FALSE)), Str(<<>>))

\* pickFirst(formAnswers, keys), formAnswers given by the list it was built from
RECURSIVE pickFirst(_, _)
pickFirst(items, keys) ==
    IF keys = <<>> THEN Str(<<>>)
    ELSE LET v == FormAnswer(items, Head(keys), TRUE)
         IN  IF v.t # "undefined" /\ v.t # "null" /\ trim(String(v)) # <<>>
             THEN v
             ELSE pickFirst(items, Tail(keys))

skipFields == {q_City, q_city, q_Address, q_address}

\* does building otherparams call .replace on a question that is no string?
\* guarded: entries with a falsy question are skipped first
ReplaceThrows(items, guarded) ==
    \E i \in 1..Len(items) :
        /\ items[i].t = "object"
        /\ guarded => Truthy(items[i].question)
        /\ items[i].question.t # "string"

\* does a callback dereference a null list element?
NullElement(items) == \E i \in 1..Len(items) : items[i].t # "object"

\* the per-question otherparams entries, in list order
\* guarded: `if (!qa?.question) return`; skip: city/address questions are left
\* out; dflt: `qa.answer ?? ''`
RECURSIVE QuestionParams(_, _, _, _)
QuestionParams(items, guarded, skip, dflt) ==
    IF items = <<>> THEN <<>>
    ELSE LET qa == Head(items)
             rest == QuestionParams(Tail(items), guarded, skip, dflt)
         IN  IF qa.t # "object" THEN rest
             ELSE IF guarded /\ ~Truthy(qa.question) THEN rest
             ELSE IF skip /\ qa.question.t = "string" /\ qa.question.s \in skipFields THEN rest
             ELSE IF qa.question.t # "string" THEN rest
             ELSE <<[meta_key |-> Str(replaceSpaces(qa.question.s, <<"_">>)),
                     meta_value |-> IF dflt THEN Nullish(qa.answer, Str(<<>>)) ELSE qa.answer]>>
                  \o rest

Meta(key, value) == [meta_key |-> Str(<<key>>), meta_value |-> value]

-----------------------------------------------------------------------------
(* HTTP responses of POST /api/webhook *)
\* success: "absent" when the JSON has no `success` key
\* details: "absent" when the object literal has no `details` key,
\*          "undefined" when error.response?.data is undefined,
\*          "body" when it is the downstream error body

R_InvalidJson == [status |-> 400, success |-> "false", text |-> "Invalid JSON body", details |-> "absent"]
\* express.json() rejects the body; Express answers with the error's status
R_ParseFailed == [status |-> 400, success |-> "absent", text |-> "SyntaxError", details |-> "absent"]
R_BadSignature == [status |-> 401, success |-> "false", text |-> "Invalid webhook signature", details |-> "absent"]
R_Ignored == [status |-> 200, success |-> "absent", text |-> "Event ignored", details |-> "absent"]
R_Missing(what) == [status |-> 200, success |-> "false", text |-> what, details |-> "absent"]
R_Sent == [status |-> 200, success |-> "true", text |-> "Lead sent to TeleForce", details |-> "absent"]
R_Error(details) == [status |-> 500, success |-> "false", text |-> "error.message", details |-> details]

\* an event filter that lets every event through
IgnoredNever(event) == FALSE

\* `if (event !== 'invitee.created')`: is the envelope ignored?
Ignored(event) == event # "invitee.created"

\* outcomes of a synchronous stretch of the handler
Respond(r) == [kind |-> "respond", resp |-> r]
Post(l) == [kind |-> "post", lead |-> l]
Get == [kind |-> "get"]

-----------------------------------------------------------------------------
(* basic variant: src/index.js *)

\* the try block up to `await axios.post`; a TypeError lands in the catch
HandlerBasic(b) ==
    IF b.t # "object" THEN Respond(R_ParseFailed)
    ELSE IF Ignored(b.event) THEN Respond(R_Ignored)
    ELSE
    LET data == b.data
        thrown == Respond(R_Error("absent"))
    IN  IF data.t # "object" THEN thrown
        ELSE
        LET invitee == data.invitee
            eventData == data.event
            questionsAnswers == Or(Opt(data.payload, "questions_and_answers"), EmptyArray)
        IN  IF eventData.t # "object" THEN thrown
            ELSE IF questionsAnswers.t # "array" THEN thrown
            ELSE IF NullElement(questionsAnswers.items) THEN thrown
            ELSE IF invitee.t # "object" THEN thrown
            ELSE
            LET eventTitle == eventData.name
                segmentId == SegmentEntry(eventTitle)
                items == questionsAnswers.items
                formConfig == FormEntry(eventTitle)
            IN  IF formConfig.t = "function" THEN thrown
                ELSE IF ReplaceThrows(items, FALSE) THEN thrown
                ELSE Post(
                    [name |-> Or(invitee.name, Str(t_Unknown)),
                     email |-> Or(invitee.email, Str(<<>>)),
                     mobile |-> Or(invitee.text_reminder_number, Str(<<>>)),
                     city |-> IF formConfig.t = "object"
                              THEN firstTruthy(items, formConfig.city)
                              ELSE firstTruthy(items, <<q_City, q_city>>),
                     address |-> IF formConfig.t = "object"
                                 THEN firstTruthy(items, formConfig.address)
                                 ELSE firstTruthy(items, <<q_Address, q_address>>),
                     usergroupid |-> ACCOUNT_ID,
                     segmentid |-> Or(segmentId, Str(<<>>)),
                     otherparams |->
                        QuestionParams(items, FALSE, TRUE, FALSE) \o
                        <<Meta("Segment_Name", eventTitle),
                          Meta("Scheduled_Time", eventData.start_time),
                          Meta("Timezone", invitee.timezone)>>])

\* lines 147-151 and the catch block, lines 153-159: no `details` key
ForwardedBasic(outcome) ==
    IF outcome = "ok" THEN R_Sent ELSE R_Error("absent")

-----------------------------------------------------------------------------
(* signature variant: src/unnamed/part_000, lines 1-367 *)

\* the signature gate with the configuration flag ignored
SignatureRejectsAlways(enabled, ok) == ~ok

\* lines 170-176: is the request answered 401?
SignatureRejects(enabled, ok) == enabled /\ ~ok

\* the try block up to `await axios.post`
HandlerSignature(b, enabled, ok) ==
    IF b.t # "object" THEN Respond(R_InvalidJson)
    ELSE IF SignatureRejects(enabled, ok) THEN Respond(R_BadSignature)
    ELSE
    LET n == normalizeSignature(b)
        invitee == n.invitee
        eventData == n.eventData
        questionsAnswers == n.questionsAnswers
        thrown == Respond(R_Error("undefined"))
    IN  IF Ignored(n.event) THEN Respond(R_Ignored)
        ELSE IF ~Truthy(invitee) \/ ~Truthy(eventData)
             THEN Respond(R_Missing("Missing invitee/event in payload"))
        ELSE
        LET eventTitle == Or(Or(eventData.name, eventData.event_type), Str(<<>>))
            segmentId == Or(SegmentEntry(eventTitle), tables.SEGMENT_MAPPING[K_default_segment])
            items == IF questionsAnswers.t = "array" THEN questionsAnswers.items ELSE <<>>
            email == Or(invitee.email, Str(<<>>))
            formConfig == FormEntry(eventTitle)
        IN  IF formConfig.t = "function" THEN thrown
            ELSE IF ReplaceThrows(items, TRUE) THEN thrown
            ELSE Post(
                [name |-> Or(Or(invitee.name, JoinNames(invitee.first_name, invitee.last_name)),
                             Str(t_Unknown)),
                 email |-> email,
                 mobile |-> Or(Or(invitee.text_reminder_number, invitee.phone_number), Str(<<>>)),
                 city |-> IF formConfig.t = "object"
                          THEN pickFirst(items, formConfig.city)
                          ELSE pickFirst(items, <<q_City, q_city>>),
                 address |-> IF formConfig.t = "object"
                             THEN pickFirst(items, formConfig.address)
                             ELSE pickFirst(items, <<q_Address, q_address>>),
                 usergroupid |-> ACCOUNT_ID,
                 segmentid |-> segmentId,
                 otherparams |->
                    QuestionParams(items, TRUE, TRUE, TRUE) \o
                    <<Meta("Calendly_Event_Title", eventTitle),
                      Meta("Calendly_Event_Start", Or(eventData.start_time, Str(<<>>))),
                      Meta("Calendly_Invitee_Email", email),
                      Meta("Calendly_Invitee_Timezone", Or(invitee.timezone, Str(<<>>)))>>])

\* lines 278-283 and the catch block, lines 284-295
ForwardedSignature(outcome) ==
    CASE outcome = "ok" -> R_Sent
      [] outcome = "failed_with_body" -> R_Error("body")
      [] OTHER -> R_Error("undefined")

-----------------------------------------------------------------------------
(* event-type lookup variant: src/unnamed/part_000, lines 369-634 *)

\* questionsAnswers.find(q => (q.question || '').toLowerCase().includes('mobile'))
\* [threw, found]: the callback throws on a null element and on a truthy
\* question that is no string; the scan stops at the first match
RECURSIVE FindMobile(_)
FindMobile(items) ==
    IF items = <<>> THEN [threw |-> FALSE, found |-> NoObject]
    ELSE LET q == Head(items)
         IN  IF q.t # "object" THEN [threw |-> TRUE, found |-> NoObject]
             ELSE IF Truthy(q.question) /\ q.question.t # "string"
                  THEN [threw |-> TRUE, found |-> NoObject]
             ELSE IF includes(toLowerCase(Or(q.question, Str(<<>>)).s), kw_mobile)
                  THEN [threw |-> FALSE, found |-> q]
             ELSE FindMobile(Tail(items))

\* lines 534-537: [threw, value]
MobileOf(questionsAnswers) ==
    IF questionsAnswers.t # "array" THEN [threw |-> TRUE, value |-> Undefined]
    ELSE LET f == FindMobile(questionsAnswers.items)
             answer == Or(Opt(f.found, "answer"), Str(<<>>))
         IN  IF f.threw \/ answer.t # "string"
             THEN [threw |-> TRUE, value |-> Undefined]
             ELSE [threw |-> FALSE,
                   value |-> Str(trim(replaceSpaces(answer.s, <<" ">>)))]

\* lines 494-543: the try block up to the call of getEventTypeName
\* "resolve": getEventTypeName is called with the event_type of the event
HandlerLookup(b) ==
    IF b.t # "object" THEN Respond(R_InvalidJson)
    ELSE
    LET n == normalizeLookup(b)
    IN  IF Ignored(n.event) THEN Respond(R_Ignored)
        ELSE IF ~Truthy(n.invitee) THEN Respond(R_Missing("Missing invitee in payload"))
        ELSE IF ~Truthy(n.eventData)
             THEN Respond(R_Missing("Missing scheduled_event in payload"))
        ELSE IF MobileOf(n.questionsAnswers).threw THEN Respond(R_Error("undefined"))
        ELSE [kind |-> "resolve", url |-> n.eventData.event_type]

\* lines 545-602: from the resolved event-type name to `await axios.post`
MapLookup(b, etn) ==
    LET n == normalizeLookup(b)
        invitee == n.invitee
        eventData == n.eventData
        items == n.questionsAnswers.items
        seg == resolveSegment(etn)
        formConfig == FormEntry(seg.segmentKey)
    IN  IF ReplaceThrows(items, TRUE) THEN Respond(R_Error("undefined"))
        ELSE Post(
            [name |-> Or(invitee.name, Str(t_Unknown)),
             email |-> Or(invitee.email, Str(<<>>)),
             mobile |-> MobileOf(n.questionsAnswers).value,
             city |-> IF formConfig.t = "object"
                      THEN pickFirst(items, formConfig.city)
                      ELSE pickFirst(items, <<q_City, q_city>>),
             address |-> IF formConfig.t = "object"
                         THEN pickFirst(items, formConfig.address)
                         ELSE pickFirst(items, <<q_Address, q_address>>),
             usergroupid |-> ACCOUNT_ID,
             segmentid |-> seg.segmentId,
             otherparams |->
                QuestionParams(items, TRUE, FALSE, TRUE) \o
                <<Meta("Calendly_EventType_Name", Or(etn, Str(<<>>))),
                  Meta("Calendly_ScheduledEvent_URI", Or(eventData.uri, Str(<<>>))),
                  Meta("Calendly_Scheduled_Start", Or(eventData.start_time, Str(<<>>))),
                  Meta("Calendly_Scheduled_End", Or(eventData.end_time, Str(<<>>)))>>])

\* lines 607-612 and the catch block, lines 613-624
ForwardedLookup(outcome) ==
    CASE outcome = "ok" -> R_Sent
      [] outcome = "failed_with_body" -> R_Error("body")
      [] OTHER -> R_Error("undefined")

\* lines 452-466: what getEventTypeName returns once axios.get has settled
\* name: resp.data?.resource?.name of a 2xx answer
EventTypeNameOf(outcome, name) ==
    IF outcome = "ok" THEN Or(name, Null) ELSE Null

-----------------------------------------------------------------------------
(* Request bodies enumerated *)

Jane ==
    [t |-> "object", name |-> Str(t_JaneDoe), first_name |-> Undefined,
     last_name |-> Undefined, email |-> Str(t_janeEmail),
     text_reminder_number |-> Undefined, phone_number |-> Undefined,
     timezone |-> Undefined]

Evt(name, url) ==
    [t |-> "object", name |-> name, event_type |-> url, start_time |-> Str(t_start),
     end_time |-> Undefined, uri |-> Undefined]

EventNames ==
    {Undefined, Str(K_CRO), Str(K_Performance), Str(n_WebsiteCROMeet), Str(n_Other),
     Str(n_constructor)}

Events == {Evt(name, url) : name \in EventNames, url \in {Undefined, Str(t_url)}}

QA(question, answer) == [t |-> "object", question |-> question, answer |-> answer]

QAEntries ==
    {QA(Str(q_City), Str(a_Austin)), QA(Str(q_City), Str(a_blank)),
     QA(Str(q_City), Null), QA(Str(q_city), Str(a_Dallas)),
     QA(Str(q_Address), Str(a_MainSt)), QA(Str(q_MobileNo), Str(a_phone)),
     QA(Str(q_YourBudget), Str(a_10k)), QA(Num(t_5), Str(a_10k)),
     QA(Undefined, Str(a_10k)), [t |-> "null"]}

QALists == UNION {[1..n -> QAEntries] : n \in 0..MaxQA}

Array(items) == [t |-> "array", items |-> items]

\* invitee fields directly under payload, the event under payload.scheduled_event
FlatPayload(e, qa) ==
    [t |-> "object", name |-> Str(t_JaneDoe), email |-> Str(t_janeEmail),
     invitee |-> NoObject, event |-> NoObject, scheduled_event |-> e,
     questions_and_answers |-> qa]

\* payload.invitee, payload.event, payload.questions_and_answers
NestedPayload(i, e, qa) ==
    [t |-> "object", name |-> Undefined, email |-> Undefined,
     invitee |-> i, event |-> e, scheduled_event |-> NoObject,
     questions_and_answers |-> qa]

\* data.invitee, data.event, data.payload.questions_and_answers
Data(i, e, qa) ==
    [t |-> "object", invitee |-> i, event |-> e,
     payload |-> [t |-> "object", questions_and_answers |-> qa]]

Envelope(event, payload, data) ==
    [t |-> "object", event |-> event, payload |-> payload, data |-> data]

\* a body JSON.parse rejects, or parses to a falsy value
InvalidBody == [t |-> "invalid"]

OneCity == Array(<<QA(Str(q_City), Str(a_Austin))>>)

\* every shape, with the invitee or the event present or missing
ShapeBodies ==
    {Envelope("invitee.created", FlatPayload(e, OneCity), NoObject) :
        e \in Events \cup {NoObject}}
    \cup {Envelope("invitee.created", NestedPayload(i, e, OneCity), NoObject) :
        i \in {Jane, NoObject}, e \in Events \cup {NoObject}}
    \cup {Envelope("invitee.created", NoObject, Data(i, e, OneCity)) :
        i \in {Jane, NoObject}, e \in Events \cup {NoObject}}
    \cup {Envelope("invitee.created", NoObject, NoObject)}

\* every questions_and_answers value, in every shape
AnswerBodies ==
    LET e == Evt(Str(K_CRO), Str(t_url))
        qas == {Array(items) : items \in QALists} \cup {NoObject, [t |-> "object"]}
    IN  {Envelope("invitee.created", FlatPayload(e, qa), NoObject) : qa \in qas}
        \cup {Envelope("invitee.created", NestedPayload(Jane, e, qa), NoObject) : qa \in qas}
        \cup {Envelope("invitee.created", NoObject, Data(Jane, e, qa)) : qa \in qas}

\* envelopes of other events, and envelopes without `event`
OtherEventBodies ==
    LET e == Evt(Str(K_CRO), Str(t_url))
    IN  {Envelope(ev, p, d) :
            ev \in {"invitee.canceled", "undefined"},
            p \in {NoObject, FlatPayload(e, OneCity), NestedPayload(Jane, e, OneCity)},
            d \in {NoObject, Data(Jane, e, OneCity)}}

Bodies == ShapeBodies \cup AnswerBodies \cup OtherEventBodies \cup {InvalidBody}

\* resp.data?.resource?.name of the event-type resource
LookupNames ==
    {Undefined, Str(n_WebsiteCROMeet), Str(n_croperformance), Str(K_Performance), Str(n_Other)}

ForwardOutcomes == {"ok", "failed_with_body", "failed"}

-----------------------------------------------------------------------------
(* The handlers as processes *)

Requests == DOMAIN pc

NoLead == [t |-> "none"]
NoResult == [t |-> "none"]

Variants == {"basic", "signature", "lookup"}

InitRequests(reqs, bodies) ==
    /\ variant \in Variants
    /\ verifyEnabled \in (IF variant = "signature" THEN BOOLEAN ELSE {FALSE})
    /\ body \in [reqs -> bodies]
    /\ sigOk \in [reqs -> IF variant = "signature" THEN BOOLEAN ELSE {TRUE}]
    /\ pc = [r \in reqs |-> "received"]
    /\ eventTypeName = [r \in reqs |-> Undefined]
    /\ lead = [r \in reqs |-> NoLead]
    /\ calls = [r \in reqs |-> <<>>]
    /\ netResult = [r \in reqs |-> [lookup |-> "none", forward |-> "none"]]
    /\ responses = [r \in reqs |-> <<>>]
    /\ fnName = Null
    /\ fnResult = NoResult
    /\ tables = ConfigTables

Init == InitRequests({1}, Bodies)

\* a handler that keeps the payload it builds in one variable of the module,
\* shared by every request in flight
ContinueShared(r, out) ==
    IF out.kind = "respond"
    THEN /\ responses' = [responses EXCEPT ![r] = Append(@, out.resp)]
         /\ pc' = [pc EXCEPT ![r] = "done"]
         /\ UNCHANGED <<lead, calls>>
    ELSE /\ out.kind = "post"
         /\ lead' = [q \in Requests |-> out.lead]
         /\ calls' = [calls EXCEPT ![r] = Append(@, "POST")]
         /\ pc' = [pc EXCEPT ![r] = "awaitForward"]
         /\ UNCHANGED responses

\* the handler runs on to its response or to `await axios.post`
Continue(r, out) ==
    IF out.kind = "respond"
    THEN /\ responses' = [responses EXCEPT ![r] = Append(@, out.resp)]
         /\ pc' = [pc EXCEPT ![r] = "done"]
         /\ UNCHANGED <<lead, calls>>
    ELSE /\ out.kind = "post"
         /\ lead' = [lead EXCEPT ![r] = out.lead]
         /\ calls' = [calls EXCEPT ![r] = Append(@, "POST")]
         /\ pc' = [pc EXCEPT ![r] = "awaitForward"]
         /\ UNCHANGED responses

\* src/index.js, app.post('/api/webhook'), to the first await
ReceiveBasic(r) ==
    /\ variant = "basic"
    /\ pc[r] = "received"
    /\ Continue(r, HandlerBasic(body[r]))
    /\ UNCHANGED <<variant, verifyEnabled, body, sigOk, eventTypeName, netResult,
                   fnName, fnResult, tables>>

\* signature variant, to the first await
ReceiveSignature(r) ==
    /\ variant = "signature"
    /\ pc[r] = "received"
    /\ Continue(r, HandlerSignature(body[r], verifyEnabled, sigOk[r]))
    /\ UNCHANGED <<variant, verifyEnabled, body, sigOk, eventTypeName, netResult,
                   fnName, fnResult, tables>>

\* lookup variant, to the first await: getEventTypeName returns null at once
\* when the event has no event_type, and issues axios.get otherwise
ReceiveLookup(r) ==
    /\ variant = "lookup"
    /\ pc[r] = "received"
    /\ LET out == HandlerLookup(body[r])
       IN  IF out.kind # "resolve"
           THEN Continue(r, out) /\ UNCHANGED <<eventTypeName, netResult>>
           ELSE IF ~Truthy(out.url)
           THEN /\ eventTypeName' = [eventTypeName EXCEPT ![r] = Null]
                /\ netResult' = [netResult EXCEPT ![r].lookup = "skipped"]
                /\ Continue(r, MapLookup(body[r], Null))
           ELSE /\ calls' = [calls EXCEPT ![r] = Append(@, "GET")]
                /\ pc' = [pc EXCEPT ![r] = "awaitEventType"]
                /\ UNCHANGED <<eventTypeName, netResult, lead, responses>>
    /\ UNCHANGED <<variant, verifyEnabled, body, sigOk, fnName, fnResult, tables>>

\* axios.get settles: getEventTypeName returns and the handler maps the lead
EventTypeSettled(r) ==
    /\ pc[r] = "awaitEventType"
    /\ \E outcome \in {"ok", "failed"}, name \in LookupNames :
        /\ outcome = "failed" => name = Undefined
        /\ eventTypeName' = [eventTypeName EXCEPT ![r] = EventTypeNameOf(outcome, name)]
        /\ netResult' = [netResult EXCEPT ![r].lookup = outcome]
        /\ Continue(r, MapLookup(body[r], EventTypeNameOf(outcome, name)))
    /\ UNCHANGED <<variant, verifyEnabled, body, sigOk, fnName, fnResult, tables>>

\* a handler that posts the lead again when the forward fails
ForwardedRetry(r, outcome) ==
    IF outcome = "ok"
    THEN /\ responses' = [responses EXCEPT ![r] = Append(@, R_Sent)]
         /\ pc' = [pc EXCEPT ![r] = "done"]
         /\ UNCHANGED calls
    ELSE /\ calls' = [calls EXCEPT ![r] = Append(@, "POST")]
         /\ UNCHANGED <<responses, pc>>

\* a handler whose catch block answers 500 although the try block has
\* already sent the success response
ForwardedTwice(r, outcome) ==
    /\ responses' = [responses EXCEPT ![r] = @ \o <<R_Sent, R_Error("undefined")>>]
    /\ pc' = [pc EXCEPT ![r] = "done"]
    /\ UNCHANGED calls

\* after `await axios.post`: the success response, or the catch block
Forwarded(r, outcome) ==
    /\ responses' = [responses EXCEPT ![r] = Append(@,
            CASE variant = "basic" -> ForwardedBasic(outcome)
              [] variant = "signature" -> ForwardedSignature(outcome)
              [] variant = "lookup" -> ForwardedLookup(outcome))]
    /\ pc' = [pc EXCEPT ![r] = "done"]
    /\ UNCHANGED calls

\* axios.post settles
ForwardSettled(r) ==
    /\ pc[r] = "awaitForward"
    /\ \E outcome \in ForwardOutcomes :
        /\ netResult' = [netResult EXCEPT ![r].forward = outcome]
        /\ Forwarded(r, outcome)
    /\ UNCHANGED <<variant, verifyEnabled, body, sigOk, eventTypeName, lead,
                   fnName, fnResult, tables>>

Next ==
    \/ \E r \in Requests : ReceiveBasic(r)
    \/ \E r \in Requests : ReceiveSignature(r)
    \/ \E r \in Requests : ReceiveLookup(r)
    \/ \E r \in Requests : EventTypeSettled(r)
    \/ \E r \in Requests : ForwardSettled(r)

Spec == Init /\ [][Next]_vars

-----------------------------------------------------------------------------
(* Properties *)

Range(f) == {f[i] : i \in DOMAIN f}

Answered(r) == pc[r] = "done"
Posted(r) == "POST" \in Range(calls[r])
IsEnvelope(r) == body[r].t = "object"
GateRejects(r) == variant = "signature" /\ verifyEnabled /\ ~sigOk[r]

\* C1 as stated: every valid envelope whose event is not "invitee.created"
\* (a missing event included) is answered 200 "Event ignored", in every
\* variant, and causes no outbound call.
C1_AsStated ==
    \A r \in Requests :
        (IsEnvelope(r) /\ body[r].event # "invitee.created") =>
            /\ calls[r] = <<>>
            /\ Answered(r) => responses[r] = <<R_Ignored>>

\* C1 amended: a valid envelope whose event is not "invitee.created" never
\* causes an outbound call (lead POST or event-type GET), is answered by the
\* synchronous part of the handler, and the answer is 200 "Event ignored",
\* except in the signature variant with verification enabled and a signature
\* that does not verify, where the answer is 401.
C1_IgnoredEvents ==
    \A r \in Requests :
        (IsEnvelope(r) /\ body[r].event # "invitee.created") =>
            /\ calls[r] = <<>>
            /\ pc[r] \in {"received", "done"}
            /\ Answered(r) =>
                responses[r] = IF GateRejects(r) THEN <<R_BadSignature>> ELSE <<R_Ignored>>

\* an envelope without `event`, carrying a complete payload, was ignored
C1_Witness ==
    \E r \in Requests :
        /\ IsEnvelope(r) /\ body[r].event = "undefined"
        /\ body[r].payload.t = "object"
        /\ responses[r] = <<R_Ignored>>

Located(r) ==
    CASE variant = "basic" ->
            [invitee |-> Opt(body[r].data, "invitee"), eventData |-> Opt(body[r].data, "event")]
      [] variant = "signature" ->
            [invitee |-> normalizeSignature(body[r]).invitee,
             eventData |-> normalizeSignature(body[r]).eventData]
      [] variant = "lookup" ->
            [invitee |-> normalizeLookup(body[r]).invitee,
             eventData |-> normalizeLookup(body[r]).eventData]

\* C3: an "invitee.created" envelope that reaches normalization and whose
\* invitee or event data cannot be located is answered 200 with
\* success=false, never 500, and posts no lead, in every variant.
C3_MissingIsSoftFailure ==
    \A r \in Requests :
        (/\ IsEnvelope(r) /\ body[r].event = "invitee.created"
         /\ ~GateRejects(r)
         /\ ~Truthy(Located(r).invitee) \/ ~Truthy(Located(r).eventData)) =>
            /\ ~Posted(r)
            /\ Answered(r) =>
                /\ Len(responses[r]) = 1
                /\ responses[r][1].status = 200
                /\ responses[r][1].success = "false"

\* C4: a request that reached the forwarder is answered 200 success=true only
\* once the POST has succeeded, and a failed POST is answered 500
\* success=false with `details` carrying the downstream error body whenever
\* the downstream returned one, in every variant.
C4_ForwardOutcomeSurfaced ==
    \A r \in Requests :
        /\ \A i \in DOMAIN responses[r] :
                responses[r][i].success = "true" => netResult[r].forward = "ok"
        /\ (Posted(r) /\ Answered(r)) =>
                /\ Len(responses[r]) = 1
                /\ netResult[r].forward = "ok" => responses[r][1] = R_Sent
                /\ netResult[r].forward # "ok" =>
                        /\ responses[r][1].status = 500
                        /\ responses[r][1].success = "false"
                /\ netResult[r].forward = "failed_with_body" =>
                        responses[r][1].details = "body"

\* C5: in the lookup variant, once the event-type fetch has failed or was
\* skipped for want of an event_type URL, getEventTypeName has returned null,
\* the lead is posted with the default segment id, and the answer is the one
\* the outcome of the forward determines.
C5_LookupFailureDegrades ==
    \A r \in Requests :
        (variant = "lookup" /\ netResult[r].lookup \in {"failed", "skipped"}) =>
            /\ eventTypeName[r] = Null
            /\ Posted(r)
            /\ lead[r].segmentid = SEGMENT_MAPPING[K_default_segment]
            /\ Answered(r) => responses[r] = <<ForwardedLookup(netResult[r].forward)>>

\* C6: a request issues at most one lead POST, also after the POST has failed
\* or timed out, and at most one event-type GET, which precedes the POST;
\* only the lookup variant issues a GET.
C6_SingleAttempt ==
    \A r \in Requests :
        /\ calls[r] \in {<<>>, <<"GET">>, <<"POST">>, <<"GET", "POST">>}
        /\ variant # "lookup" => "GET" \notin Range(calls[r])

\* a request was answered 500 after its only POST failed, the GET before it
C6_Witness ==
    \E r \in Requests :
        /\ Answered(r)
        /\ netResult[r].forward = "failed"
        /\ calls[r] = <<"GET", "POST">>
        /\ responses[r] = <<R_Error("undefined")>>

\* the event-type name segment resolution works on
ResolvedName(r) ==
    CASE variant = "basic" -> Located(r).eventData.name
      [] variant = "signature" ->
            Or(Or(Located(r).eventData.name, Located(r).eventData.event_type), Str(<<>>))
      [] variant = "lookup" -> eventTypeName[r]

\* is the name one the variant's resolution strategy knows: a key of the
\* segment table (exact-name variants), a name containing a keyword (lookup)
KnownName(r) ==
    IF variant = "lookup"
    THEN Truthy(ResolvedName(r))
         /\ \/ includes(toLowerCase(ResolvedName(r).s), kw_cro)
            \/ includes(toLowerCase(ResolvedName(r).s), kw_performance)
    ELSE String(ResolvedName(r)) \in DOMAIN SEGMENT_MAPPING

\* C7: whenever a lead is posted for an event-type name that is not a
\* configured one (empty, missing or any other text), its segmentid is the
\* default segment id, in every variant.
C7_UnknownNameGetsDefault ==
    \A r \in Requests :
        (Posted(r) /\ ~KnownName(r)) =>
            lead[r].segmentid = SEGMENT_MAPPING[K_default_segment]

\* the envelope of the end-to-end example of the specification
ExampleBody ==
    Envelope("invitee.created",
             FlatPayload(Evt(Str(n_WebsiteCROMeet), Undefined), OneCity),
             NoObject)

\* C9: the example envelope is forwarded as a lead with name "Jane Doe",
\* city "Austin" and the CRO segment id (stated for the lookup variant, the
\* one whose normalizer reads the flattened shape of the example).
C9_EndToEndExample ==
    \A r \in Requests :
        (variant = "lookup" /\ body[r] = ExampleBody /\ pc[r] \in {"awaitForward", "done"}) =>
            /\ Posted(r)
            /\ lead[r].name = Str(t_JaneDoe)
            /\ lead[r].city = Str(a_Austin)
            /\ lead[r].segmentid = SEGMENT_MAPPING[K_CRO]

\* the list the handler iterates: questionsAnswers of the request
AnswerItems(r) ==
    LET qa == CASE variant = "basic" ->
                    Or(Opt(Opt(body[r].data, "payload"), "questions_and_answers"), EmptyArray)
                [] variant = "signature" -> normalizeSignature(body[r]).questionsAnswers
                [] variant = "lookup" -> normalizeLookup(body[r]).questionsAnswers
    IN  IF qa.t = "array" THEN qa.items ELSE <<>>

\* the answer recorded for a question text: that of its last entry
AnswerTo(items, key) ==
    LET hits == {i \in DOMAIN items :
                    items[i].t = "object" /\ items[i].question = Str(key)}
    IN  IF hits = {} THEN Undefined ELSE items[Max(hits)].answer

\* present: non-empty after conversion to text and trimming
Present(v) == v.t \notin {"undefined", "null"} /\ trim(String(v)) # <<>>

\* the answer of the first of two keys whose answer is present, else ""
FirstPresent(items, keys) ==
    IF Present(AnswerTo(items, keys[1])) THEN AnswerTo(items, keys[1])
    ELSE IF Present(AnswerTo(items, keys[2])) THEN AnswerTo(items, keys[2])
    ELSE Str(<<>>)

\* C10: in every variant the city and the address of a posted lead are the
\* answer of the first key of <<"City","city">> / <<"Address","address">>
\* whose answer is present; a missing, null, empty or whitespace-only answer
\* is passed over, and the result is "" when no key has a present answer.
C10_FirstPresentKey ==
    \A r \in Requests :
        Posted(r) =>
            /\ lead[r].city = FirstPresent(AnswerItems(r), <<q_City, q_city>>)
            /\ lead[r].address = FirstPresent(AnswerItems(r), <<q_Address, q_address>>)

-----------------------------------------------------------------------------
(* otherparams of a posted lead *)

\* the k-th smallest element of a set of numbers
Nth(S, k) == CHOOSE i \in S : Cardinality({x \in S : x <= i}) = k

\* the text with every run of whitespace turned into one underscore: of a run
\* only the last character is kept, and it is written "_"
Underscored(s) ==
    LET kept == {i \in 1..Len(s) : ~(IsSpace(s[i]) /\ i < Len(s) /\ IsSpace(s[i + 1]))}
    IN  [j \in 1..Cardinality(kept) |->
            IF IsSpace(s[Nth(kept, j)]) THEN "_" ELSE s[Nth(kept, j)]]

\* the keys of the fixed metadata entries of the deployed variant, in order
FixedKeys ==
    CASE variant = "basic" -> <<"Segment_Name", "Scheduled_Time", "Timezone">>
      [] variant = "signature" ->
            <<"Calendly_Event_Title", "Calendly_Event_Start",
              "Calendly_Invitee_Email", "Calendly_Invitee_Timezone">>
      [] variant = "lookup" ->
            <<"Calendly_EventType_Name", "Calendly_ScheduledEvent_URI",
              "Calendly_Scheduled_Start", "Calendly_Scheduled_End">>

\* the inclusion policy: the basic and the signature variant leave the city
\* and address questions out, the lookup variant keeps every question
Excluded(qa) ==
    variant # "lookup" /\ qa.question.t = "string" /\ qa.question.s \in skipFields

\* otherparams is one entry per listed pair, in list order, then the fixed
\* entries; blank: a null or missing answer is written as ""
OtherparamsAre(r, pairs, blank) ==
    LET items == AnswerItems(r)
        op == lead[r].otherparams
        n == Cardinality(pairs)
    IN  /\ Len(op) = n + Len(FixedKeys)
        /\ \A k \in 1..n :
            LET qa == items[Nth(pairs, k)]
            IN  /\ op[k].meta_key = Str(Underscored(String(qa.question)))
                /\ op[k].meta_value =
                    IF blank /\ qa.answer.t \in {"undefined", "null"}
                    THEN Str(<<>>) ELSE qa.answer
        /\ \A k \in 1..Len(FixedKeys) : op[n + k].meta_key = Str(<<FixedKeys[k]>>)

\* C11 as stated: otherparams of a forwarded lead is exactly one entry per
\* question/answer pair the inclusion policy covers, in list order, keyed by
\* the question with whitespace runs as underscores and valued by the answer
\* itself, followed by the fixed metadata entries in their order.
C11_AsStated ==
    \A r \in Requests :
        Posted(r) =>
            LET items == AnswerItems(r)
            IN  OtherparamsAre(r, {i \in DOMAIN items :
                                      items[i].t = "object" /\ ~Excluded(items[i])},
                               FALSE)

\* C11: otherparams of a forwarded lead is exactly one entry per
\* question/answer pair that the inclusion policy covers and, in the
\* signature and lookup variants, that has a question text; the entries are
\* in list order, keyed by the question with whitespace runs as underscores
\* and valued by the answer, where the signature and lookup variants write a
\* null or missing answer as ""; the fixed metadata entries follow in their
\* order, none before a per-question entry.
C11_OtherparamsOrder ==
    \A r \in Requests :
        Posted(r) =>
            LET items == AnswerItems(r)
            IN  OtherparamsAre(r, {i \in DOMAIN items :
                                      /\ items[i].t = "object"
                                      /\ ~Excluded(items[i])
                                      /\ variant # "basic" => Truthy(items[i].question)},
                               variant # "basic")

\* the lookup variant posted a lead for a null city answer followed by a
\* question with a run of two spaces
C11_Witness ==
    \E r \in Requests :
        /\ Posted(r)
        /\ variant = "lookup"
        /\ AnswerItems(r) = <<QA(Str(q_City), Null), QA(Str(q_YourBudget), Str(a_10k))>>
        /\ Len(lead[r].otherparams) = 6
        /\ lead[r].otherparams[1] = [meta_key |-> Str(q_City), meta_value |-> Str(<<>>)]
        /\ lead[r].otherparams[2].meta_key =
            Str(<<"Y", "o", "u", "r", "_", "B", "u", "d", "g", "e", "t">>)
        /\ lead[r].otherparams[2].meta_value = Str(a_10k)

-----------------------------------------------------------------------------
(* The normalizer *)

\* what normalizeCalendlyWebhook returned for a request of a variant that
\* has one
Normalized(r) ==
    IF variant = "signature" THEN normalizeSignature(body[r]) ELSE normalizeLookup(body[r])

\* two values are the same field: both absent, or equal
SameField(a, b) == (~Truthy(a) /\ ~Truthy(b)) \/ a = b

\* C13: the normalizer takes the invitee from `payload` itself when there is
\* one and from `data.invitee` otherwise, the event from
\* `payload.scheduled_event` when present and from `data.event` otherwise, and
\* the answers from `payload.questions_and_answers` when present, from
\* `data.payload.questions_and_answers` otherwise and as the empty sequence
\* when absent from both, each field on its own.
C13_FieldByField ==
    \A r \in Requests :
        (variant # "basic" /\ IsEnvelope(r) /\ pc[r] # "received") =>
            LET payload == body[r].payload
                data == body[r].data
                n == Normalized(r)
            IN  /\ SameField(n.invitee, Or(payload, Opt(data, "invitee")))
                /\ SameField(n.eventData,
                             Or(Opt(payload, "scheduled_event"), Opt(data, "event")))
                /\ n.questionsAnswers =
                    Or(Or(Opt(payload, "questions_and_answers"),
                          Opt(Opt(data, "payload"), "questions_and_answers")),
                       EmptyArray)

\* the part of it about absent answers: never null, the empty sequence
C13_AnswersDefault ==
    \A r \in Requests :
        (variant # "basic" /\ IsEnvelope(r) /\ pc[r] # "received"
         /\ ~Truthy(Opt(body[r].payload, "questions_and_answers"))
         /\ ~Truthy(Opt(Opt(body[r].data, "payload"), "questions_and_answers"))) =>
            Normalized(r).questionsAnswers = EmptyArray

-----------------------------------------------------------------------------
(* Several requests in flight *)

MaxRequests == 2

\* one envelope of the flattened shape, one of the `data` shape, one ignored
ConcurrentBodies ==
    {Envelope("invitee.created", FlatPayload(Evt(Str(K_CRO), Str(t_url)), OneCity), NoObject),
     Envelope("invitee.created", NoObject, Data(Jane, Evt(Str(K_CRO), Str(t_url)), OneCity)),
     Envelope("invitee.canceled", NoObject, NoObject)}

InitConcurrent == InitRequests(1..MaxRequests, ConcurrentBodies)

SpecConcurrent == InitConcurrent /\ [][Next]_vars

\* one step of one request
RequestStep(r) ==
    \/ ReceiveBasic(r)
    \/ ReceiveSignature(r)
    \/ ReceiveLookup(r)
    \/ EventTypeSettled(r)
    \/ ForwardSettled(r)

\* everything the process holds for one request
Own(r) ==
    <<body[r], sigOk[r], pc[r], eventTypeName[r], lead[r], calls[r], netResult[r],
      responses[r]>>

Waiting(r) == pc[r] \in {"awaitEventType", "awaitForward"}

\* while a request waits for the network, every other unanswered request can
\* take its next step
NonBlocking ==
    \A r \in Requests, q \in Requests :
        (r # q /\ Waiting(r) /\ ~Answered(q)) => ENABLED RequestStep(q)

\* two answered requests with the same body, signature outcome and network
\* outcomes have the same lead and the same response
OwnInputsOnly ==
    \A r \in Requests, q \in Requests :
        (/\ Answered(r) /\ Answered(q)
         /\ body[r] = body[q] /\ sigOk[r] = sigOk[q]
         /\ netResult[r] = netResult[q] /\ eventTypeName[r] = eventTypeName[q]) =>
            /\ lead[r] = lead[q]
            /\ responses[r] = responses[q]

\* a step of a request leaves the configuration and every other request as
\* they were
Isolated ==
    \A r \in Requests :
        RequestStep(r) =>
            /\ tables' = tables
            /\ variant' = variant /\ verifyEnabled' = verifyEnabled
            /\ \A q \in Requests \ {r} : Own(q)' = Own(q)

\* C14: with several requests in flight, a request waiting for its event-type
\* lookup or its forward never keeps another request from its next step; no
\* step of a request changes the segment and form tables or anything held
\* for another request; and lead and response of a request are determined by
\* its own body, signature outcome and network outcomes.
C14_RequestsIndependent ==
    /\ [](tables = ConfigTables /\ NonBlocking /\ OwnInputsOnly)
    /\ [][Isolated]_vars

\* request 1 still waits for its event-type lookup while request 2, received
\* after it, has been forwarded and answered
C14_Witness ==
    /\ variant = "lookup"
    /\ {1, 2} \subseteq Requests
    /\ pc[1] = "awaitEventType"
    /\ calls[1] = <<"GET">>
    /\ Answered(2)
    /\ calls[2] = <<"GET", "POST">>
    /\ responses[2] = <<R_Sent>>

-----------------------------------------------------------------------------
(* One response per request *)

\* one body for each path of the handlers: not JSON, another event, nothing
\* to map, a lead with and without an event-type URL in the flattened and in
\* the `data` shape, and a question that is no text in either shape
PathBodies ==
    LET e == Evt(Str(K_CRO), Str(t_url))
        bad == Array(<<QA(Num(t_5), Str(a_10k))>>)
    IN  {InvalidBody,
         Envelope("invitee.canceled", NoObject, NoObject),
         Envelope("invitee.created", NoObject, NoObject),
         Envelope("invitee.created", FlatPayload(e, OneCity), NoObject),
         Envelope("invitee.created", FlatPayload(Evt(Str(K_CRO), Undefined), OneCity), NoObject),
         Envelope("invitee.created", NoObject, Data(Jane, e, OneCity)),
         Envelope("invitee.created", FlatPayload(e, bad), NoObject),
         Envelope("invitee.created", NoObject, Data(Jane, e, bad))}

InitPaths == InitRequests({1}, PathBodies)

\* the handler's synchronous stretches run to their end, and every outbound
\* call settles: axios is given a timeout on each call
SpecFair == InitPaths /\ [][Next]_vars /\ WF_vars(Next)

\* at most one response, and the handler has finished exactly when it is sent
OneResponse ==
    \A r \in Requests :
        /\ Len(responses[r]) <= 1
        /\ Answered(r) <=> Len(responses[r]) = 1

\* C15: on every path of every variant a request is sent at most one
\* response, its handler has finished exactly when one response has been
\* sent, and every request is answered in the end.
C15_ExactlyOneResponse ==
    /\ []OneResponse
    /\ <>(\A r \in Requests : Answered(r))

\* a request whose forward failed without a downstream body has its one
\* response, the 500 of the catch block
C15_Witness ==
    \E r \in Requests :
        /\ Answered(r)
        /\ calls[r] = <<"GET", "POST">>
        /\ netResult[r].forward = "failed"
        /\ responses[r] = <<R_Error("undefined")>>

-----------------------------------------------------------------------------
(* Extraction and mapping of ill-typed bodies *)

\* C16: a request whose body is a JSON envelope of event "invitee.created" is
\* answered 500 only after its lead POST was issued and failed, whatever the
\* types and shapes of invitee, event and answers: extraction and mapping do
\* not throw.
C16_ErrorOnlyFromForward ==
    \A r \in Requests :
        (/\ IsEnvelope(r)
         /\ body[r].event = "invitee.created"
         /\ Answered(r)
         /\ responses[r][1].status = 500) =>
            /\ Posted(r)
            /\ netResult[r].forward \in {"failed", "failed_with_body"}

-----------------------------------------------------------------------------
(* resolveSegment as a function of the event-type name *)

Words ==
    {kw_cro, K_CRO, <<"C", "r", "O">>, kw_performance, K_Performance,
     <<"p", "e", "r", "f", "o", "r", "m">>, <<"A", "N", "C", "E">>, <<"m", "i">>, <<" ">>}

RECURSIVE Concat(_)
Concat(ws) == IF ws = <<>> THEN <<>> ELSE Head(ws) \o Concat(Tail(ws))

\* eventTypeName as getEventTypeName returns it: null or a text
SegmentNames ==
    {Null} \cup {Str(Concat(ws)) : ws \in UNION {[1..n -> Words] : n \in 0..MaxWords}}

InitSegment ==
    /\ variant = "lookup"
    /\ verifyEnabled = FALSE
    /\ body = <<>>
    /\ sigOk = <<>>
    /\ pc = <<>>
    /\ eventTypeName = <<>>
    /\ lead = <<>>
    /\ calls = <<>>
    /\ netResult = <<>>
    /\ responses = <<>>
    /\ fnName \in SegmentNames
    /\ fnResult = NoResult
    /\ tables = ConfigTables

\* const { segmentKey, segmentId } = resolveSegment(eventTypeName, requestId)
CallResolveSegment ==
    /\ fnResult = NoResult
    /\ fnResult' = resolveSegment(fnName)
    /\ UNCHANGED <<variant, verifyEnabled, body, sigOk, pc, eventTypeName, lead,
                   calls, netResult, responses, fnName, tables>>

NextSegment == CallResolveSegment

SpecSegment == InitSegment /\ [][NextSegment]_vars

\* does the text contain the keyword, letter case disregarded?
ContainsKeyword(text, kw) ==
    \E i \in 1..Len(text) :
        /\ i + Len(kw) - 1 <= Len(text)
        /\ \A k \in 1..Len(kw) : LowerCh(text[i + k - 1]) = kw[k]

\* C8: resolveSegment returns the CRO segment when the name contains "cro" in
\* any letter case, also when it contains "performance" too; otherwise the
\* Performance segment when it contains "performance"; otherwise segmentKey
\* "default_segment" with the default id; and segmentId is always the table
\* entry of the returned segmentKey.
C8_KeywordPriority ==
    fnResult # NoResult =>
        LET text == IF fnName.t = "string" THEN fnName.s ELSE <<>>
        IN  /\ fnResult.segmentKey.t = "string"
            /\ fnResult.segmentKey.s \in DOMAIN SEGMENT_MAPPING
            /\ fnResult.segmentId = SEGMENT_MAPPING[fnResult.segmentKey.s]
            /\ fnResult.segmentKey.s =
                IF ContainsKeyword(text, kw_cro) THEN K_CRO
                ELSE IF ContainsKeyword(text, kw_performance) THEN K_Performance
                ELSE K_default_segment

\* a name with both keywords, "performance" first and "cro" split across two
\* words, resolved to CRO
C8_Witness ==
    /\ fnName = Str(K_Performance \o <<"m", "i">> \o K_CRO)
    /\ fnResult = [segmentKey |-> Str(K_CRO), segmentId |-> SEGMENT_MAPPING[K_CRO]]

-----------------------------------------------------------------------------
(* verifyCalendlySignature as a function of body, header and key *)

MaxParts == 2

\* String.prototype.split for a one-character separator
RECURSIVE split(_, _)
split(s, sep) ==
    IF \A i \in 1..Len(s) : s[i] # sep THEN <<s>>
    ELSE LET i == CHOOSE k \in 1..Len(s) : s[k] = sep /\ \A j \in 1..(k - 1) : s[j] # sep
         IN  <<SubSeq(s, 1, i - 1)>> \o split(SubSeq(s, i + 1, Len(s)), sep)

startsWith(s, prefix) == Len(s) >= Len(prefix) /\ SubSeq(s, 1, Len(prefix)) = prefix

\* parts.find(p => p.trim().startsWith(prefix)): the part itself, untrimmed
RECURSIVE findPart(_, _)
findPart(parts, prefix) ==
    IF parts = <<>> THEN Undefined
    ELSE IF startsWith(trim(Head(parts)), prefix) THEN Str(Head(parts))
    ELSE findPart(Tail(parts), prefix)

\* part.split('=')[1]
secondField(part) ==
    LET fields == split(part, "=")
    IN  IF Len(fields) >= 2 THEN Str(fields[2]) ELSE Undefined

\* the value of a hexadecimal digit, -1 for any other character
HexVal(c) ==
    CASE c \in {"0", "1", "2", "3", "4", "5", "6", "7", "8", "9"} ->
            CHOOSE v \in 0..9 : <<"0", "1", "2", "3", "4", "5", "6", "7", "8", "9">>[v + 1] = c
      [] c \in {"a", "A"} -> 10
      [] c \in {"b", "B"} -> 11
      [] c \in {"c", "C"} -> 12
      [] c \in {"d", "D"} -> 13
      [] c \in {"e", "E"} -> 14
      [] c \in {"f", "F"} -> 15
      [] OTHER -> -1

\* Buffer.from(s, 'hex'): bytes of the leading pairs of hexadecimal digits;
\* decoding stops at the first pair that is not hexadecimal, and a trailing
\* single digit is dropped
RECURSIVE fromHex(_)
fromHex(s) ==
    IF Len(s) < 2 THEN <<>>
    ELSE IF HexVal(s[1]) < 0 \/ HexVal(s[2]) < 0 THEN <<>>
    ELSE <<16 * HexVal(s[1]) + HexVal(s[2])>> \o fromHex(SubSeq(s, 3, Len(s)))

HexDigits == <<"0", "1", "2", "3", "4", "5", "6", "7", "8", "9", "a", "b", "c", "d", "e", "f">>

\* digest('hex'): two lower-case digits per byte
RECURSIVE toHex(_)
toHex(bytes) ==
    IF bytes = <<>> THEN <<>>
    ELSE <<HexDigits[(Head(bytes) \div 16) + 1], HexDigits[(Head(bytes) % 16) + 1]>>
         \o toHex(Tail(bytes))

key_1 == <<"k", "1">>
key_2 == <<"k", "2">>
raw_empty == <<"{", "}">>
raw_space == <<"{", " ", "}">>
ts_1 == <<"1">>
ts_2 == <<"2">>

RawBodies == {raw_empty, raw_space}
SigningKeys == {Undefined, Str(<<>>), Str(key_1), Str(key_2)}

\* the texts `${t}.${rawBody}` that are signed, listed
SignedTexts ==
    <<ts_1 \o <<".">> \o raw_empty, ts_1 \o <<".">> \o raw_space,
      ts_2 \o <<".">> \o raw_empty, ts_2 \o <<".">> \o raw_space,
      <<".">> \o raw_empty, <<".">> \o raw_space>>

\* createHmac('sha256', key).update(text).digest(): the digest as two bytes,
\* one naming the key and one naming the text, so that different inputs have
\* different digests
hmac(key, text) ==
    <<(IF key = key_1 THEN 161 ELSE 178),
      192 + (CHOOSE i \in 1..Len(SignedTexts) : SignedTexts[i] = text)>>

\* [returned, threw]
verifyCalendlySignature(rawBody, signatureHeader, signingKey) ==
    IF ~Truthy(signatureHeader) \/ ~Truthy(signingKey)
    THEN [returned |-> FALSE, threw |-> FALSE]
    ELSE
    LET parts == split(signatureHeader.s, ",")
        tPart == findPart(parts, <<"t", "=">>)
        v1Part == findPart(parts, <<"v", "1", "=">>)
    IN  IF ~Truthy(tPart) \/ ~Truthy(v1Part) THEN [returned |-> FALSE, threw |-> FALSE]
        ELSE
        LET t == secondField(tPart.s)
            sig == secondField(v1Part.s)
            payloadToSign == String(t) \o <<".">> \o rawBody
            expected == toHex(hmac(signingKey.s, payloadToSign))
            a == fromHex(expected)
        IN  IF sig.t # "string" THEN [returned |-> FALSE, threw |-> TRUE]
            ELSE LET b == fromHex(sig.s)
                 IN  IF Len(a) # Len(b) THEN [returned |-> FALSE, threw |-> FALSE]
                     ELSE [returned |-> a = b, threw |-> FALSE]

\* the digest of one key, timestamp and body, as the sender writes it
SignatureOf(key, ts, raw) == toHex(hmac(key, ts \o <<".">> \o raw))

\* v1 values: right and wrong signatures, and right ones written differently
SignatureTexts ==
    {SignatureOf(key_1, ts, raw) : ts \in {ts_1, ts_2}, raw \in RawBodies}
    \cup {SignatureOf(key_2, ts_1, raw_empty),
          <<"A", "1", "C", "1">>,
          SignatureOf(key_1, ts_1, raw_empty) \o <<"z", "z">>,
          SignatureOf(key_1, ts_1, raw_empty) \o <<"0">>,
          SubSeq(SignatureOf(key_1, ts_1, raw_empty), 1, 2),
          <<>>}

\* the comma-separated components a header is made of
HeaderParts ==
    {<<"t", "=">> \o ts : ts \in {ts_1, ts_2, <<>>}}
    \cup {<<" ", "t", "=">> \o ts_1, <<"x", "=">> \o ts_1}
    \cup {<<"v", "1", "=">> \o sig : sig \in SignatureTexts}

RECURSIVE JoinParts(_)
JoinParts(parts) ==
    IF parts = <<>> THEN <<>>
    ELSE IF Len(parts) = 1 THEN parts[1]
    ELSE parts[1] \o <<",">> \o JoinParts(Tail(parts))

\* req.headers['calendly-webhook-signature']: absent, or a text
SignatureHeaders ==
    {Undefined} \cup
    {Str(JoinParts(parts)) : parts \in UNION {[1..n -> HeaderParts] : n \in 0..MaxParts}}

InitVerify ==
    /\ variant = "signature"
    /\ verifyEnabled = TRUE
    /\ body = <<>>
    /\ sigOk = <<>>
    /\ pc = <<>>
    /\ eventTypeName = <<>>
    /\ lead = <<>>
    /\ calls = <<>>
    /\ netResult = <<>>
    /\ responses = <<>>
    /\ fnName \in [rawBody : RawBodies, header : SignatureHeaders, key : SigningKeys]
    /\ fnResult = NoResult
    /\ tables = ConfigTables

\* const ok = verifyCalendlySignature(rawBody, signatureHeader, KEY)
CallVerify ==
    /\ fnResult = NoResult
    /\ fnResult' = verifyCalendlySignature(fnName.rawBody, fnName.header, fnName.key)
    /\ UNCHANGED <<variant, verifyEnabled, body, sigOk, pc, eventTypeName, lead,
                   calls, netResult, responses, fnName, tables>>

NextVerify == CallVerify

SpecVerify == InitVerify /\ [][NextVerify]_vars

\* the text after the first "=" of a header component
ValueOf(part) ==
    LET i == CHOOSE k \in 1..Len(part) : part[k] = "=" /\ \A j \in 1..(k - 1) : part[j] # "="
    IN  SubSeq(part, i + 1, Len(part))

\* the components of a header that name a field, surrounding blanks removed
Components(header, field) ==
    LET parts == split(header, ",")
    IN  {i \in 1..Len(parts) : startsWith(trim(parts[i]), field \o <<"=">>)}

\* the value of the first component of a header that names a field
FieldOf(header, field) ==
    LET parts == split(header, ",")
    IN  ValueOf(parts[Nth(Components(header, field), 1)])

\* C12: verifyCalendlySignature never throws, and returns true exactly when
\* the header has a `t=` and a `v1=` component, the key is set, and the v1
\* text is the lower-case hexadecimal digest of "<t>.<rawBody>" under the key.
C12_VerifiesExactly ==
    fnResult # NoResult =>
        LET header == fnName.header
            key == fnName.key
        IN  /\ ~fnResult.threw
            /\ fnResult.returned <=>
                /\ header.t = "string"
                /\ Components(header.s, <<"t">>) # {}
                /\ Components(header.s, <<"v", "1">>) # {}
                /\ key.t = "string" /\ key.s # <<>>
                /\ FieldOf(header.s, <<"v", "1">>) =
                    SignatureOf(key.s, FieldOf(header.s, <<"t">>), fnName.rawBody)

\* the same with the v1 text compared by the bytes its leading hexadecimal
\* pairs stand for
C12_VerifiesDecoded ==
    fnResult # NoResult =>
        LET header == fnName.header
            key == fnName.key
        IN  /\ ~fnResult.threw
            /\ fnResult.returned <=>
                /\ header.t = "string"
                /\ Components(header.s, <<"t">>) # {}
                /\ Components(header.s, <<"v", "1">>) # {}
                /\ key.t = "string" /\ key.s # <<>>
                /\ fromHex(FieldOf(header.s, <<"v", "1">>)) =
                    hmac(key.s, FieldOf(header.s, <<"t">>) \o <<".">> \o fnName.rawBody)
====
